---- MODULE Spec2Model ----
(***************************************************************************)
(* diffdirs.nvim: the diff-session engine of src/src/lib.rs.               *)
(*                                                                         *)
(* State: the three thread-local cells DIFF_FILES, DIFF_DIRS and CONFIG,   *)
(* and the part of the host editor the plugin drives through nvim_oxi::api *)
(* (tab pages and their windows, the current tab page, the quickfix list,  *)
(* the switchbuf option, the two <Plug> mappings, the DiffDirs command),   *)
(* and the directory trees WalkDir reads.                                  *)
(*                                                                         *)
(* A relative path is a sequence of components, a component a small        *)
(* number (1 = "a", 2 = "b", ...).  A string is a sequence of character    *)
(* codes in which Sep separates components.                                *)
(***************************************************************************)
EXTENDS Integers, Sequences, FiniteSets, TLC

VARIABLES
    DIFF_FILES,   \* lib.rs:38  BTreeMap<PathBuf, TabPage>: path -> tab handle
    DIFF_DIRS,    \* lib.rs:39  DiffDirType
    CONFIG,       \* lib.rs:40  config::Config: which side hooks are set
    registered,   \* the DiffDirs user command exists (lib.rs:59)
    tabs,         \* host: live tab handle -> sequence of panes, last = current window
    cur,          \* host: current tab page
    nextTab,      \* host: next fresh tab handle
    qflist,       \* host: the quickfix list
    switchbuf,    \* host: "usetab" has been added to 'switchbuf'
    keymaps,      \* host: the <Plug> mappings that exist
    fs,           \* the directory trees: root name -> WalkDir entry sequence
    resolved,     \* history: the result of the latest make_file_set call
    builtFs,      \* history: <<the trees the latest open_tabs run read>> if it
                  \* succeeded, <<>> if it failed or none ran yet
    spent,        \* history: DiffDirs invocations plus failed host calls so far
    last          \* history: the latest operation and its outcome

vars == <<DIFF_FILES, DIFF_DIRS, CONFIG, registered, tabs, cur, nextTab, qflist,
          switchbuf, keymaps, fs, resolved, builtFs, spent, last>>

(***************************************************************************)
(* Bounds.                                                                 *)
(***************************************************************************)
\* A behaviour is cut off by its cost: the tab pages it created, plus the
\* DiffDirs invocations it made, plus the host calls it let fail.
MaxCost == 4

(***************************************************************************)
(* Paths and strings.                                                      *)
(***************************************************************************)
Sep == 0         \* the character code of the path separator

NoPath == <<>>   \* PathBuf::new()

\* Ord for Path: lexicographic on the components.
RECURSIVE PathLess(_, _)
PathLess(p, q) ==
    IF q = <<>> THEN FALSE
    ELSE IF p = <<>> THEN TRUE
    ELSE IF Head(p) # Head(q) THEN Head(p) < Head(q)
    ELSE PathLess(Tail(p), Tail(q))

\* AsRef<Path> for str / Path::new: the components between separators; empty
\* components (repeated or trailing separators) are dropped.
RECURSIVE PathOfStr(_)
PathOfStr(s) ==
    IF s = <<>> THEN <<>>
    ELSE IF Head(s) = Sep THEN PathOfStr(Tail(s))
    ELSE <<Head(s)>> \o PathOfStr(Tail(s))

\* a file name that is not valid UTF-8, and the name made of U+FFFD that
\* to_string_lossy turns it into
BadName == 9

Replacement == 8

Lossy(c) == IF c = BadName THEN Replacement ELSE c

\* Path::to_string_lossy: the components joined by the separator, what is not
\* valid UTF-8 replaced by U+FFFD.
RECURSIVE StrOfPath(_)
StrOfPath(p) ==
    IF p = <<>> THEN <<>>
    ELSE IF Len(p) = 1 THEN <<Lossy(Head(p))>>
    ELSE <<Lossy(Head(p)), Sep>> \o StrOfPath(Tail(p))

\* Path::join of a root directory and a relative path: the file it names.
Join(dir, rel) == [root |-> dir, rel |-> rel]

(***************************************************************************)
(* The directory trees.  A tree is the sequence of entries WalkDir yields  *)
(* for it: the root itself first, then its descendants in some order.  An  *)
(* entry is a file, a directory, or an error (an entry that failed to      *)
(* enumerate).                                                             *)
(***************************************************************************)
FileE(p) == [kind |-> "file", rel |-> p]
DirE(p) == [kind |-> "dir", rel |-> p]
ErrE == [kind |-> "err", rel |-> NoPath]

\* root "L": b, d/ (a directory), one unreadable entry
TreeL == <<DirE(<<>>), FileE(<<2>>), DirE(<<4>>), ErrE>>
\* root "R": b, a
TreeR == <<DirE(<<>>), FileE(<<2>>), FileE(<<1>>)>>
\* root "R" after a was moved to d/a
TreeR2 == <<DirE(<<>>), DirE(<<4>>), FileE(<<4, 1>>), FileE(<<2>>)>>
\* root "O": c only
TreeO == <<DirE(<<>>), FileE(<<3>>)>>

Fs1 == [d \in {"L", "R", "O"} |-> CASE d = "L" -> TreeL [] d = "R" -> TreeR [] OTHER -> TreeO]
Fs2 == [Fs1 EXCEPT !["R"] = TreeR2]
FsStates == {Fs1, Fs2}

\* WalkDir::new(dir).into_iter() on the trees f: a root that does not exist
\* yields one error entry.
WalkDir(f, dir) == IF dir \in DOMAIN f THEN f[dir] ELSE <<ErrE>>

(***************************************************************************)
(* FileSetResolver: collect_file_paths and make_file_set.  A BTreeSet is   *)
(* its sequence of elements in iteration order.                            *)
(***************************************************************************)
\* BTreeSet::insert
RECURSIVE BTreeInsert(_, _)
BTreeInsert(set, x) ==
    IF set = <<>> THEN <<x>>
    ELSE IF Head(set) = x THEN set
    ELSE IF PathLess(x, Head(set)) THEN <<x>> \o set
    ELSE <<Head(set)>> \o BTreeInsert(Tail(set), x)

\* BTreeSet::extend
RECURSIVE BTreeExtend(_, _)
BTreeExtend(set, items) ==
    IF items = <<>> THEN set
    ELSE BTreeExtend(BTreeInsert(set, Head(items)), Tail(items))

\* a filter that lets directories through
EntryPath_KeepsDirs(e) == IF e.kind = "err" THEN <<>> ELSE <<e.rel>>

\* the filter_map closure of collect_file_paths: Some(path) for a file entry,
\* None for a directory and for an error (which is printed)
EntryPath(e) == IF e.kind = "file" THEN <<e.rel>> ELSE <<>>

RECURSIVE FilterMapCollect(_, _)
FilterMapCollect(walk, acc) ==
    IF walk = <<>> THEN acc
    ELSE FilterMapCollect(Tail(walk), BTreeExtend(acc, EntryPath(Head(walk))))

collect_file_paths(f, dir) == FilterMapCollect(WalkDir(f, dir), <<>>)

make_file_set(f, left_dir, right_dir) ==
    BTreeExtend(collect_file_paths(f, left_dir), collect_file_paths(f, right_dir))

(***************************************************************************)
(* The host editor, as far as nvim_oxi::api is used.  A host state h is a  *)
(* record [tabs, cur, next, qf, sb, km, fuel, err, calls, hook]: the       *)
(* editor state, plus fuel, the number of the host call that fails (0:     *)
(* none does), err, set once a call has failed, calls, the number of host  *)
(* calls made, and hook, set when the call that failed was a hook call.    *)
(* Every fallible host call is followed by ? in the source, so once err is *)
(* set the rest of the operation is skipped.                               *)
(*                                                                         *)
(* A pane is [side, file, fixbuf, mod, hooks]: the DiffTab field its file  *)
(* came from, the file, the winfixbuf and modifiable attributes ("unset"   *)
(* until a set command ran in the pane) and the hook calls made on it.     *)
(***************************************************************************)
Tick(h) ==
    IF h.err THEN h
    ELSE IF h.fuel = 1 THEN [h EXCEPT !.err = TRUE, !.fuel = 0, !.calls = @ + 1]
    ELSE IF h.fuel = 0 THEN [h EXCEPT !.calls = @ + 1]
    ELSE [h EXCEPT !.fuel = @ - 1, !.calls = @ + 1]

NewPane(side, file, fixbuf) ==
    [side |-> side, file |-> file, fixbuf |-> fixbuf, mod |-> "unset", hooks |-> <<>>]

EmptyFile == [root |-> "", rel |-> NoPath]

CurPane(h) == h.tabs[h.cur][Len(h.tabs[h.cur])]

\* api::cmd "edit <file> | difft": the current window shows the file
CmdEdit(h, side, file) ==
    LET t == Tick(h) IN
    IF t.err THEN t
    ELSE [t EXCEPT !.tabs[t.cur][Len(t.tabs[t.cur])] = NewPane(side, file, @.fixbuf)]

\* api::cmd "tabedit <file> | difft": a new tab page with one window, made current
CmdTabedit(h, side, file) ==
    LET t == Tick(h) IN
    IF t.err THEN t
    ELSE [t EXCEPT !.tabs = [x \in DOMAIN t.tabs \cup {t.next} |->
                                IF x = t.next THEN <<NewPane(side, file, "unset")>>
                                ELSE t.tabs[x]],
                   !.cur = t.next,
                   !.next = @ + 1]

\* api::cmd "vertical diffs <file>" / "botright diffs <file>": a new window in
\* the current tab page, made current
CmdDiffsplit(h, side, file) ==
    LET t == Tick(h) IN
    IF t.err THEN t
    ELSE [t EXCEPT !.tabs[t.cur] = Append(@, NewPane(side, file, "unset"))]

\* api::command "set winfixbuf | set nomodifiable" / "... | set modifiable":
\* 'winfixbuf' is local to the current window, 'modifiable' is local to its
\* buffer, so it changes in every window that shows the same file
CommandSet(h, mod) ==
    LET t == Tick(h) IN
    IF t.err THEN t
    ELSE [t EXCEPT !.tabs = [x \in DOMAIN t.tabs |->
            [i \in 1..Len(t.tabs[x]) |->
                [t.tabs[x][i] EXCEPT
                    !.fixbuf = IF x = t.cur /\ i = Len(t.tabs[x]) THEN "on" ELSE @,
                    !.mod = IF t.tabs[x][i].file = CurPane(t).file THEN mod ELSE @]]]]

\* Function::call of a configured hook with the current window; hook is set
\* when this call is the one that failed
HookCall(h, which) ==
    LET t == Tick(h) IN
    IF t.err THEN [t EXCEPT !.hook = @ \/ ~h.err]
    ELSE [t EXCEPT !.tabs[t.cur][Len(t.tabs[t.cur])].hooks =
                        Append(@, [hook |-> which,
                                   fixbuf |-> CurPane(t).fixbuf,
                                   mod |-> CurPane(t).mod])]

\* api::set_current_tabpage: an error when the handle is invalid
SetCurrentTabpage(h, tab) ==
    LET t == Tick(h) IN
    IF t.err THEN t
    ELSE IF tab \notin DOMAIN t.tabs THEN [t EXCEPT !.err = TRUE]
    ELSE [t EXCEPT !.cur = tab]

\* setqflist([], 'r')
SetQfReplace(h) ==
    LET t == Tick(h) IN
    IF t.err THEN t ELSE [t EXCEPT !.qf = <<>>]

\* setqflist([entry], 'a')
SetQfAppend(h, entry) ==
    LET t == Tick(h) IN
    IF t.err THEN t ELSE [t EXCEPT !.qf = Append(@, entry)]

\* api::command "set switchbuf+=usetab"
CommandSwitchbuf(h) ==
    LET t == Tick(h) IN
    IF t.err THEN t ELSE [t EXCEPT !.sb = TRUE]

\* api::set_keymap
SetKeymap(h, lhs) ==
    LET t == Tick(h) IN
    IF t.err THEN t ELSE [t EXCEPT !.km = @ \cup {lhs}]

(***************************************************************************)
(* config.rs                                                               *)
(***************************************************************************)
ConfigNew == [left_diff_opt_fn |-> FALSE, right_diff_opt_fn |-> FALSE]

\* a left policy that never calls the hook
set_left_diff_opt_SkipsHook(h, config) == CommandSet(h, "off")

set_left_diff_opt(h, config) ==
    LET t == CommandSet(h, "off") IN
    IF config.left_diff_opt_fn THEN HookCall(t, "left") ELSE t

set_right_diff_opt(h, config) ==
    LET t == CommandSet(h, "on") IN
    IF config.right_diff_opt_fn THEN HookCall(t, "right") ELSE t

(***************************************************************************)
(* DiffTab.  A DiffTab d is [left_file, right_file, output_file, config],  *)
(* output_file a sequence of length 0 (None) or 1 (Some).                  *)
(***************************************************************************)
set_left_opt(h, d) == set_left_diff_opt(CommandSet(h, "off"), d.config)

set_right_opt(h, d) == set_right_diff_opt(CommandSet(h, "on"), d.config)

\* a three-way open that leaves the right pane editable
open_output_RightEditable(h, d) ==
    IF d.output_file # <<>>
    THEN CmdDiffsplit(set_right_opt(h, d), "output", d.output_file[1])
    ELSE h

\* lib.rs:296-307: in three-way mode the right pane gets the left options and
\* the output file is opened in a further split
open_output(h, d) ==
    IF d.output_file # <<>>
    THEN CmdDiffsplit(set_left_opt(h, d), "output", d.output_file[1])
    ELSE h

\* an open that always reuses the current tab page
open_left_AlwaysEdit(h, d, is_first) == CmdEdit(h, "left", d.left_file)

\* lib.rs:292: "edit" in the current tab page for the first file, else "tabedit"
open_left(h, d, is_first) ==
    IF is_first THEN CmdEdit(h, "left", d.left_file)
    ELSE CmdTabedit(h, "left", d.left_file)

open(h, d, is_first) ==
    set_right_opt(
        open_output(
            CmdDiffsplit(set_left_opt(open_left(h, d, is_first), d), "right", d.right_file),
            d),
        d)

(***************************************************************************)
(* DiffContext.  A DiffContext c is [left_dir, right_dir, output_dir,      *)
(* config], output_dir a sequence of length 0 (None) or 1 (Some).          *)
(***************************************************************************)
DefaultDirs == [type |-> "Two", left |-> "", right |-> "", output |-> ""]

\* BTreeMap::insert
MapInsert(m, k, v) == [x \in DOMAIN m \cup {k} |-> IF x = k THEN v ELSE m[x]]

EmptyMap == [x \in {} |-> 0]

\* the DiffTab the loop body of open_tabs builds for one file (lib.rs:235-248)
TabOf(c, file) ==
    [left_file |-> Join(c.left_dir, file),
     right_file |-> Join(c.right_dir, file),
     output_file |-> IF c.output_dir # <<>> THEN <<Join(c.output_dir[1], file)>> ELSE <<>>,
     config |-> c.config]

\* a quickfix entry that always names the right-root file
modifiable_file_AlwaysRight(c, file) == Join(c.right_dir, file)

modifiable_file(c, file) ==
    IF c.output_dir # <<>> THEN Join(c.output_dir[1], file) ELSE Join(c.right_dir, file)

\* the panes one successful open call made: the last two of the tab page in
\* two-way mode, the last three in three-way mode
ViewOf(h, d, file, is_first) ==
    LET ps == h.tabs[h.cur]
        n == IF d.output_file # <<>> THEN 3 ELSE 2
    IN  [path |-> file, tab |-> h.cur, is_first |-> is_first,
         panes |-> SubSeq(ps, Len(ps) - n + 1, Len(ps))]

\* lib.rs:250-255: the quickfix entry of the file just opened, appended
append_entry(h, c, file) ==
    SetQfAppend(h, [bufnr |-> CurPane(h).file,
                    filename |-> modifiable_file(c, file),
                    text |-> StrOfPath(file)])

\* an iteration that stores the tab page that was current before its open
loop_step_StoresPrevious(r, d, file, h1, h2) ==
    IF h1.err THEN [r EXCEPT !.h = h1]
    ELSE IF h2.err
         THEN [r EXCEPT !.h = h2, !.views = Append(@, ViewOf(h1, d, file, r.is_first))]
    ELSE [h |-> h2,
          map |-> MapInsert(r.map, file, r.h.cur),
          views |-> Append(r.views, ViewOf(h1, d, file, r.is_first)),
          is_first |-> FALSE]

\* lib.rs:256-257, after open (yielding h1) and the append (yielding h2): the
\* loop state r = [h, map, views, is_first] after one iteration
loop_step(r, d, file, h1, h2) ==
    IF h1.err THEN [r EXCEPT !.h = h1]
    ELSE IF h2.err
         THEN [r EXCEPT !.h = h2, !.views = Append(@, ViewOf(h1, d, file, r.is_first))]
    ELSE [h |-> h2,
          map |-> MapInsert(r.map, file, h2.cur),
          views |-> Append(r.views, ViewOf(h1, d, file, r.is_first)),
          is_first |-> FALSE]

loop_body(r, c, file, h1) ==
    loop_step(r, TabOf(c, file), file, h1, append_entry(h1, c, file))

\* the for loop of open_tabs (lib.rs:234-258)
RECURSIVE OpenLoop(_, _, _)
OpenLoop(r, c, files) ==
    IF files = <<>> \/ r.h.err THEN r
    ELSE OpenLoop(loop_body(r, c, Head(files),
                            open(r.h, TabOf(c, Head(files)), r.is_first)),
                  c, Tail(files))

DirsOf(c) ==
    IF c.output_dir # <<>>
    THEN [type |-> "Three", left |-> c.left_dir, right |-> c.right_dir,
          output |-> c.output_dir[1]]
    ELSE [type |-> "Two", left |-> c.left_dir, right |-> c.right_dir, output |-> ""]

\* a swap that also happens when the build failed
swap_in_KeepsPartial(s, c, files, r, h2) ==
    [s EXCEPT !.h = h2,
              !.files = r.map,
              !.dirs = DirsOf(c),
              !.resolved = files,
              !.ran = TRUE,
              !.views = r.views]

\* a swap that drops the keys the cache held before
swap_in_DropsCached(s, c, files, r, h2) ==
    [s EXCEPT !.h = h2,
              !.files = IF h2.err THEN s.files
                        ELSE [k \in DOMAIN r.map \ DOMAIN s.files |-> r.map[k]],
              !.dirs = DirsOf(c),
              !.resolved = files,
              !.ran = TRUE,
              !.views = r.views]

\* lib.rs:259-261, after the loop (yielding r) and set_current_tabpage
\* (yielding h2)
swap_in(s, c, files, r, h2) ==
    [s EXCEPT !.h = h2,
              !.files = IF h2.err THEN s.files ELSE r.map,
              !.dirs = DirsOf(c),
              !.resolved = files,
              !.ran = TRUE,
              !.views = r.views]

\* a build that leaves the tab page of the last view current
restore_first_Skips(s, c, files, r) == swap_in(s, c, files, r, r.h)

restore_first(s, c, files, r) ==
    swap_in(s, c, files, r, SetCurrentTabpage(r.h, s.h.cur))

build_all(s, c, files) ==
    restore_first(s, c, files,
                  OpenLoop([h |-> SetQfReplace(s.h), map |-> EmptyMap, views |-> <<>>,
                            is_first |-> TRUE],
                           c, files))

\* DiffContext::open_tabs on the process state s = [h, files, dirs, resolved,
\* ran, views, arg_err]: the host, DIFF_FILES, DIFF_DIRS, the latest file set,
\* whether open_tabs ran, the views opened, and whether an argument error was
\* raised; f is the directory trees
open_tabs(s, c, f) == build_all(s, c, make_file_set(f, c.left_dir, c.right_dir))

setup_keymap(h) == SetKeymap(SetKeymap(CommandSwitchbuf(h), "PrevDiff"), "NextDiff")

\* an arity check that takes four arguments for three
show_diff_LaxArity(s, args, config, f) ==
    IF Len(args) = 2
    THEN open_tabs(s, [left_dir |-> args[1], right_dir |-> args[2],
                       output_dir |-> <<>>, config |-> config], f)
    ELSE IF Len(args) >= 3
    THEN open_tabs(s, [left_dir |-> args[1], right_dir |-> args[2],
                       output_dir |-> <<args[3]>>, config |-> config], f)
    ELSE [s EXCEPT !.arg_err = TRUE]

\* show_diff: res is "ok", "host_error" or "arg_count"
show_diff(s, args, config, f) ==
    IF Len(args) = 2
    THEN open_tabs(s, [left_dir |-> args[1], right_dir |-> args[2],
                       output_dir |-> <<>>, config |-> config], f)
    ELSE IF Len(args) = 3
    THEN open_tabs(s, [left_dir |-> args[1], right_dir |-> args[2],
                       output_dir |-> <<args[3]>>, config |-> config], f)
    ELSE [s EXCEPT !.arg_err = TRUE]

\* the closure of the DiffDirs command (lib.rs:61-65)
DiffDirsClosure(s, args, config, f) ==
    IF s.h.err THEN s ELSE show_diff(s, args, config, f)

DiffDirsCommand(s, args, config, f) ==
    DiffDirsClosure([s EXCEPT !.h = setup_keymap(@)], args, config, f)

\* lib.rs:93-112: the DiffTab a jump builds for a stale entry
JumpTab(dirs, key, config) ==
    [left_file |-> Join(dirs.left, key),
     right_file |-> Join(dirs.right, key),
     output_file |-> IF dirs.type = "Three" THEN <<Join(dirs.output, key)>> ELSE <<>>,
     config |-> config]

\* a rebuild that forgets to store the new tab page
rebuilt_NoOverwrite(s, key, d, h1) ==
    IF h1.err THEN [s EXCEPT !.h = h1]
    ELSE [s EXCEPT !.h = h1, !.views = <<ViewOf(h1, d, key, FALSE)>>]

\* a rebuild that stores the current tab page even when open failed
rebuilt_OverwritesOnError(s, key, d, h1) ==
    IF h1.err THEN [s EXCEPT !.h = h1, !.files[key] = h1.cur]
    ELSE [s EXCEPT !.h = h1,
                   !.files[key] = h1.cur,
                   !.views = <<ViewOf(h1, d, key, FALSE)>>]

\* a rebuild that also appends a quickfix entry for the path
rebuilt_AppendsEntry(s, key, d, h1) ==
    IF h1.err THEN [s EXCEPT !.h = h1]
    ELSE [s EXCEPT !.h = SetQfAppend(h1, [bufnr |-> CurPane(h1).file,
                                          filename |-> CurPane(h1).file,
                                          text |-> StrOfPath(key)]),
                   !.files[key] = h1.cur,
                   !.views = <<ViewOf(h1, d, key, FALSE)>>]

\* lib.rs:100-101: after open (yielding h1), the entry of key is overwritten
\* with the current tab page
rebuilt(s, key, d, h1) ==
    IF h1.err THEN [s EXCEPT !.h = h1]
    ELSE [s EXCEPT !.h = h1,
                   !.files[key] = h1.cur,
                   !.views = <<ViewOf(h1, d, key, FALSE)>>]

\* a jump that opens a view whether or not the cached tab page is valid
jump_key_AlwaysRebuilds(s, key, config) ==
    IF key \notin DOMAIN s.files THEN [s EXCEPT !.arg_err = TRUE]
    ELSE rebuilt(s, key, JumpTab(s.dirs, key, config),
                 open(s.h, JumpTab(s.dirs, key, config), FALSE))

\* a jump that opens and caches a path the cache does not hold
jump_key_OpensAbsent(s, key, config) ==
    IF key \in DOMAIN s.files /\ s.files[key] \in DOMAIN s.h.tabs
    THEN [s EXCEPT !.h = SetCurrentTabpage(s.h, s.files[key])]
    ELSE rebuilt([s EXCEPT !.files = MapInsert(@, key, 0)], key,
                 JumpTab(s.dirs, key, config),
                 open(s.h, JumpTab(s.dirs, key, config), FALSE))

jump_key(s, key, config) ==
    IF key \notin DOMAIN s.files THEN [s EXCEPT !.arg_err = TRUE]
    ELSE IF s.files[key] \in DOMAIN s.h.tabs      \* tab.is_valid()
    THEN [s EXCEPT !.h = SetCurrentTabpage(s.h, s.files[key])]
    ELSE rebuilt(s, key, JumpTab(s.dirs, key, config),
                 open(s.h, JumpTab(s.dirs, key, config), FALSE))

\* jump_to_diff_tab
jump_to_diff_tab(s, path, config) == jump_key(s, PathOfStr(path), config)

\* diff_files
diff_files(files) ==
    LET RECURSIVE Keys(_, _)
        Keys(rest, acc) ==
            IF rest = {} THEN acc
            ELSE LET k == CHOOSE x \in rest : \A y \in rest \ {x} : PathLess(x, y)
                 IN  Keys(rest \ {k}, Append(acc, StrOfPath(k)))
    IN  Keys(DOMAIN files, <<>>)

(***************************************************************************)
(* The state machine.                                                      *)
(***************************************************************************)
Configs == {ConfigNew, [left_diff_opt_fn |-> TRUE, right_diff_opt_fn |-> TRUE]}

\* the argument lists DiffDirs is invoked with; the root "N" does not exist,
\* so the file set of <<"N", "N">> is empty
ArgLists ==
    {<<>>, <<"L">>, <<"L", "R">>, <<"N", "N">>, <<"L", "R", "O">>, <<"L", "R", "R">>,
     <<"L", "R", "O", "N">>}

\* the strings jump_diff_tab is called with: a, b, c, d/a
JumpPaths == {<<1>>, <<2>>, <<3>>, <<4, Sep, 1>>}

Host(fuel) ==
    [tabs |-> tabs, cur |-> cur, next |-> nextTab, qf |-> qflist, sb |-> switchbuf,
     km |-> keymaps, fuel |-> fuel, err |-> FALSE, calls |-> 0, hook |-> FALSE]

Proc(fuel) ==
    [h |-> Host(fuel), files |-> DIFF_FILES, dirs |-> DIFF_DIRS, resolved |-> resolved,
     ran |-> FALSE, views |-> <<>>, arg_err |-> FALSE]

Result(s) == IF s.arg_err THEN "arg_error" ELSE IF s.h.err THEN "host_error" ELSE "ok"

Commit(s) ==
    /\ DIFF_FILES' = s.files
    /\ DIFF_DIRS' = s.dirs
    /\ resolved' = s.resolved
    /\ tabs' = s.h.tabs
    /\ cur' = s.h.cur
    /\ nextTab' = s.h.next
    /\ qflist' = s.h.qf
    /\ switchbuf' = s.h.sb
    /\ keymaps' = s.h.km

Init ==
    /\ DIFF_FILES = EmptyMap
    /\ DIFF_DIRS = DefaultDirs
    /\ CONFIG = ConfigNew
    /\ registered = FALSE
    /\ tabs = [t \in {1} |-> <<NewPane("none", EmptyFile, "unset")>>]
    /\ cur = 1
    /\ nextTab = 2
    /\ qflist = <<>>
    /\ switchbuf = FALSE
    /\ keymaps = {}
    /\ fs = Fs1
    /\ resolved = <<>>
    /\ builtFs = <<>>
    /\ spent = 0
    /\ last = [op |-> "init", arg |-> <<>>, res |-> "ok", views |-> <<>>, out |-> <<>>]

\* the cost of an operation that ends in host state h: n for the operation
\* itself, 1 if a host call failed; fuel beyond the calls made is not used
Spend(h, n) ==
    /\ h.fuel = 0 \/ h.err
    /\ spent' = spent + n + (IF h.err THEN 1 ELSE 0)
    /\ spent' + (h.next - 2) <= MaxCost

\* what is left of MaxCost
Left == MaxCost - spent - (nextTab - 2)

\* the host calls that may fail in an operation that costs n and yields s when
\* none fails: any of those it makes, or none
Fuels(n, s) == IF Left < n THEN {} ELSE IF Left = n THEN {0} ELSE 0..s.h.calls

\* setup (lib.rs:55-71), called until the command is registered: object is
\* <<config>>, or <<>> for an object that does not deserialize to a Config
Setup(object, fuel) ==
    \E h \in {IF object = <<>> THEN Host(fuel) ELSE Tick(Host(fuel))} :
    /\ ~registered
    /\ fuel <= h.calls
    /\ Spend([h EXCEPT !.fuel = fuel], 0)
    /\ CONFIG' = IF object = <<>> THEN CONFIG ELSE object[1]
    /\ registered' = (object # <<>> /\ ~h.err)
    /\ last' = [op |-> "setup", arg |-> <<>>, views |-> <<>>, out |-> <<>>,
                res |-> IF object = <<>> THEN "arg_error"
                        ELSE IF h.err THEN "host_error" ELSE "ok"]
    /\ UNCHANGED <<DIFF_FILES, DIFF_DIRS, tabs, cur, nextTab, qflist, switchbuf,
                   keymaps, fs, resolved, builtFs>>

\* :DiffDirs args.  The command is registered with nargs = OneOrMore
\* (lib.rs:68), so the host rejects an empty argument list itself.
DiffDirs(args, fuel) ==
    /\ registered
    /\ IF args = <<>>
       THEN /\ Spend(Host(fuel), 1)
            /\ last' = [op |-> "diff", arg |-> args, res |-> "arg_error",
                        views |-> <<>>, out |-> <<>>]
            /\ UNCHANGED <<DIFF_FILES, DIFF_DIRS, tabs, cur, nextTab, qflist,
                           switchbuf, keymaps, resolved, builtFs>>
       ELSE \E s \in {DiffDirsCommand(Proc(fuel), args, CONFIG, fs)} :
            /\ Spend(s.h, 1)
            /\ Commit(s)
            /\ builtFs' = IF ~s.ran THEN builtFs ELSE IF s.h.err THEN <<>> ELSE <<fs>>
            /\ last' = [op |-> "diff", arg |-> args, res |-> Result(s),
                        views |-> s.views, out |-> <<>>]
    /\ UNCHANGED <<CONFIG, registered, fs>>

\* require("diffdirs").jump_diff_tab(path)
Jump(path, fuel) ==
    \E s \in {jump_to_diff_tab(Proc(fuel), path, CONFIG)} :
    /\ Spend(s.h, 0)
    /\ Commit(s)
    /\ last' = [op |-> "jump", arg |-> path, res |-> Result(s),
                views |-> s.views, out |-> <<>>]
    /\ UNCHANGED <<CONFIG, registered, fs, builtFs>>

\* require("diffdirs").diff_files()
DiffFiles ==
    /\ last' = [op |-> "diff_files", arg |-> <<>>, res |-> "ok", views |-> <<>>,
                out |-> diff_files(DIFF_FILES)]
    /\ UNCHANGED <<DIFF_FILES, DIFF_DIRS, CONFIG, registered, tabs, cur, nextTab,
                   qflist, switchbuf, keymaps, fs, resolved, builtFs, spent>>

\* the user closes a tab page (not the last one); closing the current one
\* makes another one current
ExternalClose(t, n) ==
    /\ t \in DOMAIN tabs
    /\ n \in DOMAIN tabs \ {t}
    /\ t # cur => n = cur
    /\ tabs' = [x \in DOMAIN tabs \ {t} |-> tabs[x]]
    /\ cur' = n
    /\ UNCHANGED <<DIFF_FILES, DIFF_DIRS, CONFIG, registered, nextTab, qflist,
                   switchbuf, keymaps, fs, resolved, builtFs, spent, last>>

\* a file is moved under a root: the trees change from Fs1 to Fs2
FsChange ==
    /\ fs = Fs1
    /\ fs' = Fs2
    /\ UNCHANGED <<DIFF_FILES, DIFF_DIRS, CONFIG, registered, tabs, cur, nextTab,
                   qflist, switchbuf, keymaps, resolved, builtFs, spent, last>>

Next ==
    \/ \E object \in {<<>>} \cup {<<c>> : c \in Configs}, fuel \in 0..1 :
            Setup(object, fuel)
    \/ \E args \in ArgLists :
            \E fuel \in Fuels(1, DiffDirsCommand(Proc(0), args, CONFIG, fs)) :
                DiffDirs(args, fuel)
    \/ \E path \in JumpPaths :
            \E fuel \in Fuels(0, jump_to_diff_tab(Proc(0), path, CONFIG)) :
                Jump(path, fuel)
    \/ DiffFiles
    \/ \E t \in DOMAIN tabs, n \in DOMAIN tabs : ExternalClose(t, n)
    \/ FsChange

Spec == Init /\ [][Next]_vars

(***************************************************************************)
(* FileSetResolver on its own: the trees are drawn from the walks of at    *)
(* most MaxWalk entries below the root, and make_file_set is applied to    *)
(* every pair of roots as open_tabs applies it (lib.rs:227).               *)
(***************************************************************************)
MaxWalk == 2

\* the entries below a root: a, c, d/, d/a, and an entry that fails to enumerate
Entries == {FileE(<<1>>), FileE(<<3>>), DirE(<<4>>), FileE(<<4, 1>>), ErrE}

\* WalkDir yields the root first, each entry once, a directory before its
\* contents, in no particular order otherwise
Walks ==
    {<<DirE(<<>>)>> \o w : w \in
        {w \in UNION {[1..n -> Entries] : n \in 0..MaxWalk} :
            /\ \A i, j \in DOMAIN w : i # j => w[i] # w[j]
            /\ \A j \in DOMAIN w :
                   w[j] = FileE(<<4, 1>>) => \E i \in 1..(j - 1) : w[i] = DirE(<<4>>)}}

\* the roots named on the command line: "N" does not exist
Roots == {"L", "R", "N"}

InitResolve ==
    /\ DIFF_FILES = EmptyMap
    /\ DIFF_DIRS = DefaultDirs
    /\ CONFIG = ConfigNew
    /\ registered = FALSE
    /\ tabs = [t \in {1} |-> <<NewPane("none", EmptyFile, "unset")>>]
    /\ cur = 1
    /\ nextTab = 2
    /\ qflist = <<>>
    /\ switchbuf = FALSE
    /\ keymaps = {}
    /\ \E wl \in Walks, wr \in Walks :
           fs = [d \in {"L", "R", "O"} |->
                    CASE d = "L" -> wl [] d = "R" -> wr [] OTHER -> TreeO]
    /\ resolved = <<>>
    /\ builtFs = <<>>
    /\ spent = 0
    /\ last = [op |-> "init", arg |-> <<>>, res |-> "ok", views |-> <<>>, out |-> <<>>]

\* let files = make_file_set(self.left_dir, self.right_dir)
Resolve(left_dir, right_dir) ==
    /\ resolved' = make_file_set(fs, left_dir, right_dir)
    /\ last' = [op |-> "resolve", arg |-> <<left_dir, right_dir>>, res |-> "ok",
                views |-> <<>>, out |-> <<>>]
    /\ UNCHANGED <<DIFF_FILES, DIFF_DIRS, CONFIG, registered, tabs, cur, nextTab,
                   qflist, switchbuf, keymaps, fs, builtFs, spent>>

NextResolve == \E left_dir \in Roots, right_dir \in Roots : Resolve(left_dir, right_dir)

SpecResolve == InitResolve /\ [][NextResolve]_vars

(***************************************************************************)
(* Re-entrancy.  The three thread-local cells are RefCells.  While a hook  *)
(* runs inside DiffTab::open, the operation in progress holds the borrows  *)
(* its closures took: a build holds CONFIG shared (show_diff, lib.rs:149)  *)
(* and nothing else, DIFF_DIRS.replace (lib.rs:216-225) being over and     *)
(* DIFF_FILES.replace (lib.rs:260) still to come; a jump holds DIFF_FILES  *)
(* mutably (lib.rs:83) and DIFF_DIRS and CONFIG shared (lib.rs:91-92).  A  *)
(* plugin function the hook calls borrows the cells again: borrowing a     *)
(* cell mutably while it is borrowed, or at all while it is borrowed       *)
(* mutably, panics.  The state in which hook call number k starts is the   *)
(* state in which the operation stops when that call fails.                *)
(***************************************************************************)
BuildBorrows == [files |-> "none", dirs |-> "none", config |-> "shared"]

JumpBorrows == [files |-> "mut", dirs |-> "shared", config |-> "shared"]

Borrows(kind) == IF kind = "build" THEN BuildBorrows ELSE JumpBorrows

\* the process state s when the hook that stopped it starts to run
AtHook(s) == [s EXCEPT !.h.err = FALSE, !.h.fuel = 0, !.h.hook = FALSE,
                       !.views = <<>>, !.ran = FALSE]

\* outcomes of a plugin function called from a hook: the process state and
\* CONFIG it leaves, its result and its return value
Panicked(s, config) == [s |-> s, config |-> config, res |-> "panic", out |-> <<>>]

Returned(s, config) == [s |-> s, config |-> config, res |-> Result(s), out |-> <<>>]

\* diff_files: DIFF_FILES.with_borrow (lib.rs:74)
reenter_diff_files(b, s, config) ==
    IF b.files = "mut" THEN Panicked(s, config)
    ELSE [s |-> s, config |-> config, res |-> "ok", out |-> diff_files(s.files)]

\* jump_to_diff_tab: DIFF_FILES.with_borrow_mut (lib.rs:83), then
\* DIFF_DIRS.with_borrow and CONFIG.with_borrow, which no operation in
\* progress blocks
reenter_jump(b, s, config, path) ==
    IF b.files # "none" THEN Panicked(s, config)
    ELSE Returned(jump_to_diff_tab(s, path, config), config)

\* setup: deserialize, then CONFIG.replace (lib.rs:56-58)
reenter_setup(b, s, config, object) ==
    IF object = <<>> THEN Returned([s EXCEPT !.arg_err = TRUE], config)
    ELSE IF b.config # "none" THEN Panicked(s, config)
    ELSE Returned([s EXCEPT !.h = Tick(@)], object[1])

\* show_diff after setup_keymap (yielding k): CONFIG.with_borrow (lib.rs:149),
\* the arity check, then DIFF_DIRS.replace in open_tabs (lib.rs:216-225)
reenter_show_diff(b, k, config, args, f) ==
    IF b.config = "mut" THEN Panicked(k, config)
    ELSE IF Len(args) \notin {2, 3} THEN Returned([k EXCEPT !.arg_err = TRUE], config)
    ELSE IF b.dirs # "none" THEN Panicked(k, config)
    ELSE Returned(show_diff(k, args, config, f), config)

\* the DiffDirs command closure (lib.rs:61-65)
reenter_diff(b, s, config, args, f) ==
    reenter_show_diff(b, [s EXCEPT !.h = setup_keymap(@)], config, args, f)

\* what the hook calls: diff_files(), jump_diff_tab("b"), :DiffDirs L R,
\* setup({})
InnerOps ==
    {[op |-> "diff_files", arg |-> <<>>], [op |-> "jump", arg |-> <<2>>],
     [op |-> "diff", arg |-> <<"L", "R">>], [op |-> "setup", arg |-> <<ConfigNew>>]}

Reentrant(b, s, config, inner, f) ==
    CASE inner.op = "diff_files" -> reenter_diff_files(b, s, config)
      [] inner.op = "jump" -> reenter_jump(b, s, config, inner.arg)
      [] inner.op = "setup" -> reenter_setup(b, s, config, inner.arg)
      [] OTHER -> reenter_diff(b, s, config, inner.arg, f)

Idle == last.op \notin {"hook", "reenter"}

\* an operation (kind, arg) that stops in process state mid reaches a hook
EnterHook(kind, arg, mid) ==
    /\ Idle
    /\ mid.h.err /\ mid.h.hook
    /\ Commit(AtHook(mid))
    /\ last' = [op |-> "hook", arg |-> <<kind, arg>>, res |-> "pending",
                views |-> mid.views, out |-> <<>>]
    /\ UNCHANGED <<CONFIG, registered, fs, builtFs, spent>>

\* :DiffDirs args reaches its hook call number k
EnterHookBuild(args, k) ==
    /\ registered
    /\ EnterHook("build", args, DiffDirsCommand(Proc(k), args, CONFIG, fs))

\* jump_diff_tab(path) reaches its hook call number k
EnterHookJump(path, k) ==
    EnterHook("jump", path, jump_to_diff_tab(Proc(k), path, CONFIG))

\* the hook calls a plugin function
Reenter(inner) ==
    /\ last.op = "hook"
    /\ \E r \in {Reentrant(Borrows(last.arg[1]), Proc(0), CONFIG, inner, fs)} :
          /\ Commit(r.s)
          /\ CONFIG' = r.config
          /\ last' = [op |-> "reenter", arg |-> <<last.arg[1], inner.op>>, res |-> r.res,
                      views |-> r.s.views, out |-> r.out]
    /\ UNCHANGED <<registered, fs, builtFs, spent>>

\* the numbers of the host calls process state s made
CallsOf(s) == 1..s.h.calls

NextReentry ==
    \/ Idle /\ \E c \in Configs : Setup(<<c>>, 0)
    \/ Idle /\ \E args \in {<<"L", "R">>, <<"L", "R", "O">>} : DiffDirs(args, 0)
    \/ Idle /\ \E t \in DOMAIN tabs, n \in DOMAIN tabs : ExternalClose(t, n)
    \/ \E args \in {<<"L", "R">>, <<"L", "R", "O">>} :
          \E k \in CallsOf(DiffDirsCommand(Proc(0), args, CONFIG, fs)) :
             EnterHookBuild(args, k)
    \/ \E path \in JumpPaths :
          \E k \in CallsOf(jump_to_diff_tab(Proc(0), path, CONFIG)) :
             EnterHookJump(path, k)
    \/ \E inner \in InnerOps : Reenter(inner)

SpecReentry == Init /\ [][NextReentry]_vars

(***************************************************************************)
(* Listing and jumping.  The left root holds a file whose name is not      *)
(* valid UTF-8; jump_diff_tab is called with the strings diff_files has    *)
(* just returned.                                                          *)
(***************************************************************************)
\* root "L": b and the file with the bad name
TreeB == <<DirE(<<>>), FileE(<<BadName>>), FileE(<<2>>)>>

FsB == [Fs1 EXCEPT !["L"] = TreeB, !["R"] = <<DirE(<<>>), FileE(<<2>>)>>]

InitList ==
    /\ DIFF_FILES = EmptyMap
    /\ DIFF_DIRS = DefaultDirs
    /\ CONFIG = ConfigNew
    /\ registered = FALSE
    /\ tabs = [t \in {1} |-> <<NewPane("none", EmptyFile, "unset")>>]
    /\ cur = 1
    /\ nextTab = 2
    /\ qflist = <<>>
    /\ switchbuf = FALSE
    /\ keymaps = {}
    /\ fs = FsB
    /\ resolved = <<>>
    /\ builtFs = <<>>
    /\ spent = 0
    /\ last = [op |-> "init", arg |-> <<>>, res |-> "ok", views |-> <<>>, out |-> <<>>]

\* jump_diff_tab(path) for the i-th path diff_files() has just returned
JumpListed(i) ==
    /\ last.op = "diff_files"
    /\ i \in 1..Len(last.out)
    /\ Jump(last.out[i], 0)

NextList ==
    \/ \E c \in Configs : Setup(<<c>>, 0)
    \/ \E args \in {<<"L", "R">>, <<"L", "R", "O">>, <<"N", "N">>} : DiffDirs(args, 0)
    \/ DiffFiles
    \/ \E i \in 1..2 : JumpListed(i)
    \/ \E t \in DOMAIN tabs, n \in DOMAIN tabs : ExternalClose(t, n)

SpecList == InitList /\ [][NextList]_vars

(***************************************************************************)
(* Properties.                                                             *)
(***************************************************************************)
Range(seq) == {seq[i] : i \in 1..Len(seq)}

IsValid(tab) == tab \in DOMAIN tabs

\* the cached paths whose handle an external close has invalidated
Stale(key) == key \in DOMAIN DIFF_FILES /\ ~IsValid(DIFF_FILES[key])

LastIs(op, res) == last.op = op /\ last.res = res

\* C1: in every reachable state, the key set of DIFF_FILES equals the file set
\* the latest make_file_set run computed, which is the run for the DIFF_DIRS
\* now installed.
C1_KeysAreLatestFileSet == DOMAIN DIFF_FILES = Range(resolved)

\* the files the panes show, in the order of the panes
FilesShown(panes) == [i \in 1..Len(panes) |-> panes[i].file]

\* C2: a jump to a cached path whose handle is stale, when it succeeds, opens
\* exactly one new tab page, overwrites that path's entry alone with the new
\* handle, and a jump to the same path right after it, the handle still valid,
\* opens nothing and leaves the cache as it is.
C2_Step ==
    \A path \in JumpPaths :
        (last'.op = "jump" /\ last'.arg = path /\ spent' = spent /\ Jump(path, 0)) =>
            /\ (Stale(PathOfStr(path)) /\ last'.res = "ok") =>
                    /\ DOMAIN tabs' = DOMAIN tabs \cup {nextTab}
                    /\ nextTab' = nextTab + 1
                    /\ \A t \in DOMAIN tabs : FilesShown(tabs'[t]) = FilesShown(tabs[t])
                    /\ Len(tabs'[nextTab]) = (IF DIFF_DIRS.type = "Three" THEN 3 ELSE 2)
                    /\ DIFF_FILES' = [DIFF_FILES EXCEPT ![PathOfStr(path)] = nextTab]
                    /\ cur' = nextTab
            /\ (/\ last.op = "jump" /\ last.arg = path /\ last.res = "ok"
                /\ last.views # <<>>
                /\ ~Stale(PathOfStr(path))) =>
                    /\ tabs' = tabs
                    /\ nextTab' = nextTab
                    /\ DIFF_FILES' = DIFF_FILES

C2_StaleJumpRebuildsOnce == [][C2_Step]_vars

C2_Witness ==
    /\ LastIs("jump", "ok")
    /\ Len(last.views) = 1
    /\ DIFF_FILES[PathOfStr(last.arg)] = cur
    /\ Cardinality(DOMAIN DIFF_FILES) > 1

\* C3: a jump to a cached path whose handle is valid opens no tab page and no
\* pane, leaves the cache as it is and, when it succeeds, makes the handle's
\* tab page the current one; so does every repetition.
C3_Step ==
    \A path \in JumpPaths, fuel \in 0..1 :
        (/\ last'.op = "jump" /\ last'.arg = path
         /\ PathOfStr(path) \in DOMAIN DIFF_FILES /\ ~Stale(PathOfStr(path))
         /\ Jump(path, fuel)) =>
            /\ tabs' = tabs
            /\ nextTab' = nextTab
            /\ DIFF_FILES' = DIFF_FILES
            /\ last'.views = <<>>
            /\ last'.res = "ok" => cur' = DIFF_FILES[PathOfStr(path)]
            /\ last'.res = "ok" <=> fuel = 0

C3_ValidJumpReuses == [][C3_Step]_vars

C3_Witness ==
    /\ LastIs("jump", "ok")
    /\ last.views = <<>>
    /\ DIFF_FILES[PathOfStr(last.arg)] = cur
    /\ cur # 1

\* C4: a jump to a path that is no key of the cache fails with the not-found
\* error and changes nothing: no tab page, no pane, not the cache, not
\* DIFF_DIRS, not the quickfix list, not the current tab page.
C4_Step ==
    \A path \in JumpPaths :
        (/\ last'.op = "jump" /\ last'.arg = path /\ spent' = spent
         /\ PathOfStr(path) \notin DOMAIN DIFF_FILES
         /\ Jump(path, 0)) =>
            /\ last'.res = "arg_error"
            /\ UNCHANGED <<DIFF_FILES, DIFF_DIRS, tabs, cur, nextTab, qflist,
                           switchbuf, keymaps>>

C4_AbsentJumpFails == [][C4_Step]_vars

C4_Witness ==
    /\ LastIs("jump", "arg_error")
    /\ DOMAIN DIFF_FILES # {}
    /\ PathOfStr(last.arg) \notin DOMAIN DIFF_FILES

BadArity(args) == Len(args) \notin {2, 3}

BothKeymaps == {"PrevDiff", "NextDiff"}

\* C5 as stated: DiffDirs with a number of arguments other than 2 or 3 fails
\* with the argument-count error and changes nothing: no pane, not the cache,
\* not DIFF_DIRS, not the quickfix list, no option and no key binding.
C5_OriginalStep ==
    \A args \in ArgLists :
        (/\ BadArity(args) /\ last'.op = "diff" /\ last'.arg = args /\ spent' = spent + 1
         /\ DiffDirs(args, 0)) =>
            /\ last'.res = "arg_error"
            /\ UNCHANGED <<DIFF_FILES, DIFF_DIRS, tabs, cur, nextTab, qflist,
                           switchbuf, keymaps>>

C5_Original == [][C5_OriginalStep]_vars

\* C5, amended: DiffDirs with a number of arguments other than 2 or 3 fails,
\* opens no pane and leaves the cache, DIFF_DIRS and the quickfix list as they
\* are.  With no argument the host rejects the command and nothing changes;
\* with 1 or 4 arguments setup_keymap runs before the arity check, so the
\* invocation adds usetab to switchbuf and creates the two <Plug> mappings
\* (as far as no host call fails), and then fails with the argument-count error.
C5_AmendedStep ==
    \A args \in ArgLists, fuel \in 0..3 :
        (/\ BadArity(args) /\ last'.op = "diff" /\ last'.arg = args /\ spent' > spent
         /\ DiffDirs(args, fuel)) =>
            /\ last'.res = IF fuel = 0 THEN "arg_error" ELSE "host_error"
            /\ last'.views = <<>>
            /\ UNCHANGED <<DIFF_FILES, DIFF_DIRS, tabs, cur, nextTab, qflist>>
            /\ args = <<>> => UNCHANGED <<switchbuf, keymaps>>
            /\ (args # <<>> /\ fuel = 0) => switchbuf' /\ keymaps' = BothKeymaps
            /\ (args # <<>> /\ fuel > 1) => switchbuf'
            /\ switchbuf => switchbuf'
            /\ keymaps \subseteq keymaps'

C5_BadArityOnlySetsKeymap == [][C5_AmendedStep]_vars

C5_Witness ==
    /\ LastIs("diff", "arg_error")
    /\ Len(last.arg) = 4
    /\ keymaps = BothKeymaps
    /\ DOMAIN DIFF_FILES # {}

C6_AmendedStep ==
    \A args \in ArgLists :
        (/\ ~BadArity(args)
         /\ last'.op = "diff" /\ last'.arg = args /\ last'.res = "host_error"
         /\ spent' > spent) =>
            /\ DIFF_FILES' = DIFF_FILES
            /\ Len(last'.views) <= Len(resolved')
            /\ \A i \in 1..Len(last'.views) :
                    /\ last'.views[i].path = resolved'[i]
                    /\ last'.views[i].tab \in DOMAIN tabs'
                    /\ \A k \in 1..Len(last'.views[i].panes) :
                           \E j \in 1..Len(tabs'[last'.views[i].tab]) :
                               tabs'[last'.views[i].tab][j] = last'.views[i].panes[k]
            /\ \A t \in DOMAIN tabs' : \A i \in 1..Len(tabs'[t]) :
                    \/ t \in DOMAIN tabs /\ i <= Len(tabs[t]) /\ tabs'[t][i] = tabs[t][i]
                    \/ \E j \in 1..Len(resolved') :
                           /\ j <= Len(last'.views) + 1
                           /\ tabs'[t][i].file.rel = resolved'[j]

EditRoot == IF DIFF_DIRS.type = "Three" THEN DIFF_DIRS.output ELSE DIFF_DIRS.right

\* C7: after a successful build the quickfix list has exactly one entry per
\* resolved path, in sorted path order, labelled with the relative path and
\* naming as buffer and file the right-root file (two-way) or the output-root
\* file (three-way); nothing of an earlier build is left in it.
C7_NavigationListIsTheBuild ==
    (LastIs("diff", "ok") /\ ~BadArity(last.arg)) =>
        /\ DIFF_DIRS.left = last.arg[1] /\ DIFF_DIRS.right = last.arg[2]
        /\ DIFF_DIRS.type = (IF Len(last.arg) = 3 THEN "Three" ELSE "Two")
        /\ Len(last.arg) = 3 => DIFF_DIRS.output = last.arg[3]
        /\ Len(qflist) = Len(resolved)
        /\ \A i \in 1..Len(qflist) :
                /\ qflist[i].text = StrOfPath(resolved[i])
                /\ qflist[i].filename = [root |-> EditRoot, rel |-> resolved[i]]
                /\ qflist[i].bufnr = qflist[i].filename
        /\ \A i, j \in 1..Len(qflist) :
                i < j => PathLess(PathOfStr(qflist[i].text), PathOfStr(qflist[j].text))

C7_Witness ==
    /\ LastIs("diff", "ok")
    /\ Len(last.arg) = 3
    /\ Len(qflist) = 2
    /\ spent = 2
    /\ nextTab = 4

\* the context show_diff builds from a good argument list
ContextOf(args) ==
    [left_dir |-> args[1], right_dir |-> args[2],
     output_dir |-> IF Len(args) = 3 THEN <<args[3]>> ELSE <<>>]

\* C9: a successful build on the root set of the latest successful build, the
\* trees unchanged since, leaves the cache with the same key set, and
\* diff_files returns the same list after it as before it.
C9_Step ==
    \A args \in ArgLists :
        (/\ ~BadArity(args)
         /\ builtFs = <<fs>>
         /\ DIFF_DIRS = DirsOf(ContextOf(args))
         /\ last'.op = "diff" /\ last'.arg = args /\ last'.res = "ok"
         /\ spent' = spent + 1
         /\ DiffDirs(args, 0)) =>
            /\ DOMAIN DIFF_FILES' = DOMAIN DIFF_FILES
            /\ diff_files(DIFF_FILES') = diff_files(DIFF_FILES)

C9_RebuildKeepsKeys == [][C9_Step]_vars

C9_Witness ==
    /\ LastIs("diff", "ok")
    /\ spent = 2
    /\ nextTab = 4
    /\ builtFs = <<Fs1>>
    /\ fs = Fs1
    /\ \E k \in DOMAIN DIFF_FILES : DIFF_FILES[k] = 3

\* the panes of view v are as LayoutPolicy.open lays them out, and only the
\* last one is editable
ViewIsWellFormed(v) ==
    /\ \A i \in 1..Len(v.panes) :
           /\ v.panes[i].fixbuf = "on"
           /\ v.panes[i].mod = (IF i = Len(v.panes) THEN "on" ELSE "off")
    /\ \/ /\ DIFF_DIRS.type = "Two"
          /\ [i \in 1..Len(v.panes) |-> v.panes[i].side] = <<"left", "right">>
          /\ v.panes[1].file = [root |-> DIFF_DIRS.left, rel |-> v.path]
          /\ v.panes[2].file = [root |-> DIFF_DIRS.right, rel |-> v.path]
       \/ /\ DIFF_DIRS.type = "Three"
          /\ [i \in 1..Len(v.panes) |-> v.panes[i].side] = <<"left", "right", "output">>
          /\ v.panes[1].file = [root |-> DIFF_DIRS.left, rel |-> v.path]
          /\ v.panes[2].file = [root |-> DIFF_DIRS.right, rel |-> v.path]
          /\ v.panes[3].file = [root |-> DIFF_DIRS.output, rel |-> v.path]

\* C10 as stated: every view an open call completed, in a build or in a jump
\* (last.views holds the views of the latest operation), has exactly one
\* editable pane, the last one opened.
C10_Original ==
    \A i \in 1..Len(last.views) : ViewIsWellFormed(last.views[i])

\* the panes of view v show pairwise distinct files
DistinctFiles(v) ==
    \A i, j \in 1..Len(v.panes) : i # j => v.panes[i].file # v.panes[j].file

\* C10, amended: every view an open call completed whose panes show pairwise
\* distinct files has exactly one editable pane, the last one opened: left
\* read-only and right editable in two-way mode; left and right read-only
\* and output editable in three-way mode; in builds and in jump rebuilds.
C10_OneEditablePaneLast ==
    \A i \in 1..Len(last.views) :
        DistinctFiles(last.views[i]) => ViewIsWellFormed(last.views[i])

C10_Witness ==
    /\ LastIs("jump", "ok")
    /\ Len(last.views) = 1
    /\ Len(last.views[1].panes) = 3
    /\ DistinctFiles(last.views[1])

\* the relative paths of the file entries under root d
FilesUnder(d) ==
    IF d \in DOMAIN fs
    THEN {fs[d][i].rel : i \in {j \in 1..Len(fs[d]) : fs[d][j].kind = "file"}}
    ELSE {}

\* C8: make_file_set(left, right) is the sorted, duplicate-free sequence of
\* the relative paths of the files (not the directories) under left or under
\* right; a root that does not exist and an entry that fails to enumerate
\* contribute nothing; a file found only under the output root is not in it.
C8_ResolveIsSortedUnion ==
    last.op = "resolve" =>
        /\ Range(resolved) = FilesUnder(last.arg[1]) \cup FilesUnder(last.arg[2])
        /\ \A i, j \in 1..Len(resolved) : i < j => PathLess(resolved[i], resolved[j])
        /\ \A p \in FilesUnder("O") :
               p \in Range(resolved) =>
                   p \in FilesUnder(last.arg[1]) \cup FilesUnder(last.arg[2])

\* left is walked out of order and holds a directory, right repeats a file of
\* left and holds an entry that fails, and the output-only file c is left out
C8_Witness ==
    /\ last.op = "resolve"
    /\ last.arg = <<"L", "R">>
    /\ fs["L"] = <<DirE(<<>>), DirE(<<4>>), FileE(<<4, 1>>)>>
    /\ fs["R"] = <<DirE(<<>>), ErrE, FileE(<<1>>)>>
    /\ resolved = <<<<1>>, <<4, 1>>>>

\* C11: a diff invocation that installs a new RootSet discards the previous
\* cache whether or not the build completes: once the latest open_tabs run
\* has failed (builtFs is empty), no entry of an earlier session is left for
\* diff_files or a jump to observe.
C11_NoCarryover == builtFs = <<>> => DIFF_FILES = EmptyMap

\* the labels of the quickfix entries, in list order
Labels == [i \in 1..Len(qflist) |-> qflist[i].text]

\* C12: in every state between operations (after a successful build, after a
\* build that failed part-way, after any jump) the labels of the quickfix list
\* are the ordered key list of the cache.
C12_ListMatchesCache == Labels = diff_files(DIFF_FILES)

\* C13: no jump, whatever its outcome, changes the quickfix list: the only
\* steps that change it are DiffDirs invocations with 2 or 3 arguments, which
\* run open_tabs.
C13_Step ==
    qflist' # qflist =>
        (last'.op = "diff" /\ spent' > spent /\ ~BadArity(last'.arg))

C13_OnlyBuildChangesList == [][C13_Step]_vars

\* a rebuild by a jump failed after it had created its tab page, and the list
\* of the build is still there
C13_Witness ==
    /\ LastIs("jump", "host_error")
    /\ Len(qflist) = 2
    /\ nextTab = 4

\* C14: in a build only the open of the first path (in sorted order) reuses
\* the tab page that was current when the build started, and every other open
\* creates a new tab page, so a successful build over n >= 1 paths creates
\* exactly n - 1 tab pages; a rebuild by a jump on a stale handle creates a new
\* tab page and never reuses the current one.
C14_BuildStep ==
    (last'.op = "diff" /\ spent' > spent /\ last'.views # <<>>) =>
        /\ \A i \in 1..Len(last'.views) :
               /\ last'.views[i].path = resolved'[i]
               /\ last'.views[i].is_first <=> i = 1
               /\ last'.views[i].tab = (IF i = 1 THEN cur ELSE nextTab + i - 2)
               /\ i > 1 => last'.views[i].tab \notin DOMAIN tabs
        /\ last'.res = "ok" =>
               /\ Len(last'.views) = Len(resolved')
               /\ nextTab' = nextTab + Len(resolved') - 1
               /\ DOMAIN tabs' = DOMAIN tabs \cup (nextTab..(nextTab' - 1))

C14_JumpStep ==
    \A path \in JumpPaths :
        (/\ last'.op = "jump" /\ last'.arg = path /\ spent' = spent
         /\ Stale(PathOfStr(path))
         /\ Jump(path, 0)) =>
            /\ Len(last'.views) = 1
            /\ ~last'.views[1].is_first
            /\ last'.views[1].tab = nextTab
            /\ nextTab \notin DOMAIN tabs
            /\ nextTab # cur
            /\ nextTab' = nextTab + 1
            /\ FilesShown(tabs'[cur]) = FilesShown(tabs[cur])

C14_OnlyFirstOpenReuses == [][C14_BuildStep /\ C14_JumpStep]_vars

\* a build of two paths started in tab page 2: the first view is in tab page
\* 2, the second in the new tab page 3
C14_Witness ==
    /\ LastIs("diff", "ok")
    /\ Len(last.views) = 2
    /\ last.views[1].tab = 2
    /\ last.views[2].tab = 3

\* C15: after every successful build, one over an empty file set included,
\* the current tab page is the one that was current when the build started,
\* however many views the build opened.
C15_Step ==
    (last'.op = "diff" /\ spent' > spent /\ last'.res = "ok") =>
        /\ cur' = cur
        /\ cur' \in DOMAIN tabs'
        /\ Len(last'.views) = Len(resolved')

C15_BuildRestoresFocus == [][C15_Step]_vars

\* a build of two views started and ended in tab page 2
C15_Witness ==
    /\ LastIs("diff", "ok")
    /\ Len(last.views) = 2
    /\ cur = 2
    /\ nextTab = 4

\* the files DiffTab::open shows for key under DIFF_DIRS, in pane order
LayoutOf(key) ==
    IF DIFF_DIRS.type = "Three"
    THEN <<Join(DIFF_DIRS.left, key), Join(DIFF_DIRS.right, key),
           Join(DIFF_DIRS.output, key)>>
    ELSE <<Join(DIFF_DIRS.left, key), Join(DIFF_DIRS.right, key)>>

\* C16: when the open of a jump on a stale handle fails part-way (a host call
\* or a hook returns an error), the jump returns the error, completes no
\* view, leaves the panes created so far in place, and leaves the cache as it
\* was: the entry of the path still holds the old handle, which is still
\* invalid.  (The steps that set last.op to "jump" and raise spent are the
\* Jump steps in which a host call failed.)
C16_Step ==
    \A path \in JumpPaths :
        (/\ last'.op = "jump" /\ last'.arg = path /\ last'.res = "host_error"
         /\ spent' = spent + 1
         /\ Stale(PathOfStr(path))) =>
            /\ DIFF_FILES' = DIFF_FILES
            /\ DIFF_FILES'[PathOfStr(path)] \notin DOMAIN tabs'
            /\ DIFF_DIRS' = DIFF_DIRS
            /\ last'.views = <<>>
            /\ \A t \in DOMAIN tabs :
                   t \in DOMAIN tabs' /\ FilesShown(tabs'[t]) = FilesShown(tabs[t])
            /\ \/ UNCHANGED <<nextTab, cur>> /\ DOMAIN tabs' = DOMAIN tabs
               \/ /\ nextTab' = nextTab + 1
                  /\ cur' = nextTab
                  /\ DOMAIN tabs' = DOMAIN tabs \cup {nextTab}
                  /\ Len(tabs'[nextTab]) \in 1..Len(LayoutOf(PathOfStr(path)))
                  /\ FilesShown(tabs'[nextTab]) =
                         SubSeq(LayoutOf(PathOfStr(path)), 1, Len(tabs'[nextTab]))

C16_FailedRebuildKeepsStale == [][C16_Step]_vars

\* a rebuild that failed at the left hook, or at the set command before it:
\* the new tab page 3 holds the left pane alone, without a hook call
C16_Witness ==
    /\ LastIs("jump", "host_error")
    /\ Stale(PathOfStr(last.arg))
    /\ CONFIG.left_diff_opt_fn
    /\ nextTab = 4
    /\ cur = 3
    /\ Len(tabs[3]) = 1
    /\ tabs[3][1].mod = "off"
    /\ tabs[3][1].hooks = <<>>

\* the hook calls open makes on pane k of a view of n panes: none when the
\* side's hook is not configured, else one call, made when the pane was fixed
\* to its buffer and non-modifiable (left and right of three) or modifiable
\* (the last pane)
HooksOf(k, n) ==
    IF k = n
    THEN IF CONFIG.right_diff_opt_fn
         THEN <<[hook |-> "right", fixbuf |-> "on", mod |-> "on"]>> ELSE <<>>
    ELSE IF CONFIG.left_diff_opt_fn
         THEN <<[hook |-> "left", fixbuf |-> "on", mod |-> "off"]>> ELSE <<>>

\* C17: in every view an open call completed, each pane got its side's hook
\* exactly once, after its attributes were set: the left hook on the left
\* pane and the right hook on the right pane in two-way mode; the left hook on
\* the left and on the right pane and the right hook on the output pane in
\* three-way mode; no hook call at all for a side without a hook.  A hook is
\* called on the window that is current, the newest one, so the calls are in
\* pane order.
C17_HooksOncePerPaneInOrder ==
    \A i \in 1..Len(last.views) :
        /\ Len(last.views[i].panes) \in {2, 3}
        /\ \A k \in 1..Len(last.views[i].panes) :
               /\ last.views[i].panes[k].hooks = HooksOf(k, Len(last.views[i].panes))
               /\ last.views[i].panes[k].fixbuf = "on"
               /\ last.views[i].panes[k].side =
                      <<"left", "right", "output">>[k]

C17_Witness ==
    /\ LastIs("diff", "ok")
    /\ CONFIG.left_diff_opt_fn /\ CONFIG.right_diff_opt_fn
    /\ Len(last.views) = 2
    /\ Len(last.views[2].panes) = 3

\* C18: a plugin function called from a hook while a build or a jump rebuild
\* is in progress does not complete normally and changes neither DIFF_DIRS
\* nor DIFF_FILES nor CONFIG.
C18_Step ==
    (last.op = "hook" /\ last'.op = "reenter") =>
        /\ last'.res # "ok"
        /\ UNCHANGED <<DIFF_FILES, DIFF_DIRS, CONFIG>>

C18_ReentryRejected == [][C18_Step]_vars

\* C19: no two distinct paths of the cache map to the same tab page handle,
\* live or stale.
C19_HandlesAreDistinct ==
    \A k1, k2 \in DOMAIN DIFF_FILES : k1 # k2 => DIFF_FILES[k1] # DIFF_FILES[k2]

\* two cached paths, both with a live tab page, one of them rebuilt by the
\* latest jump after its tab page had been closed
C19_Witness ==
    /\ LastIs("jump", "ok")
    /\ last.views # <<>>
    /\ Cardinality(DOMAIN DIFF_FILES) = 2
    /\ \A k \in DOMAIN DIFF_FILES : IsValid(DIFF_FILES[k])
    /\ builtFs # <<>>

\* C20: diff_files changes nothing and returns the keys of the cache in key
\* order, and jump_diff_tab called with a string it has just returned, no
\* DiffDirs invocation in between, does not fail with not-found.
C20_Step ==
    /\ (last'.op = "diff_files" /\ last' # last) =>
            /\ last'.out = diff_files(DIFF_FILES)
            /\ Len(last'.out) = Cardinality(DOMAIN DIFF_FILES)
            /\ UNCHANGED <<DIFF_FILES, DIFF_DIRS, CONFIG, tabs, cur, qflist>>
    /\ \A i \in 1..Len(last.out) :
            (/\ last.op = "diff_files"
             /\ last'.op = "jump" /\ last'.arg = last.out[i]
             /\ Jump(last.out[i], 0)) =>
                last'.res # "arg_error"

C20_ListedPathsJump == [][C20_Step]_vars

====
